---- MODULE Spec2Model ----
(***************************************************************************)
(* RTP/H.264 receiver (src/test.py): RTP header decoding, sequence-number  *)
(* tracking, start-code planning and the depacketizer (single NAL, STAP-A, *)
(* FU-A), modelled as a state machine whose one big step is an iteration   *)
(* of the receive loop of main(); and the Annex-B scanner (src/ref.py),    *)
(* whose one step is an iteration of the loop of parse_annexb.             *)
(***************************************************************************)
EXTENDS Integers, Sequences, FiniteSets, TLC

VARIABLES
    pc,               \* "running" while the receive loop runs, "closed" after the finally block
    start_code,       \* default start code (bytes)
    start_code_seq,   \* recorded start-code lengths (empty: fixed mode)
    start_code_index, \* replay cursor
    fu_buffer,        \* None or Some(bytes)
    packets, bytes_payload, nal_units, fu_complete, fu_errors, stap_units,
    marker_count, lost_packets, out_of_order, dup_packets,
    last_seq,         \* None or Some(seq)
    capture_start,    \* FALSE while None, TRUE once the first packet was accepted
    out,              \* bytes written to the output file
    records,          \* history: the NAL records written, in order
    seqHist,          \* history: the sequence numbers of the accepted packets
    codeHist,         \* history: the values next_start_code returned, in call order
    singles,          \* history: the number of single-NAL packets accepted
    afterError,       \* history: the last iteration accepted a packet right after a per-packet error
    fuRun,            \* history: the FU-A packets since the last start fragment
    abandoned,        \* history: a single-NAL packet discarded an open buffer, no start since
    rx,               \* history: what the last loop iteration received
    prev,             \* history: the program state before the last loop iteration
    input,            \* the bytes of the reference file (args.input, input.h264)
    scan_pc,          \* parse_annexb: "off", "scanning", "done" or "failed" (ValueError)
    scan_i,           \* parse_annexb: the loop index i
    yielded,          \* parse_annexb: the NALUnit values yielded so far
    wire,             \* datagrams sent to the receiver and not yet received
    sent,             \* the number of scanned units the sender has packetized
    snd_seq           \* the sender's next RTP sequence number

progVars == <<start_code_index, fu_buffer, packets, bytes_payload, nal_units,
              fu_complete, fu_errors, stap_units, marker_count, lost_packets,
              out_of_order, dup_packets, last_seq, capture_start, out>>
vars == <<pc, start_code, start_code_seq, start_code_index, fu_buffer, packets,
          bytes_payload, nal_units, fu_complete, fu_errors, stap_units,
          marker_count, lost_packets, out_of_order, dup_packets, last_seq,
          capture_start, out, records, seqHist, codeHist, singles, afterError,
          fuRun, abandoned, rx, prev, input, scan_pc, scan_i, yielded, wire, sent,
          snd_seq>>
scanVars == <<scan_pc, scan_i, yielded>>
sendVars == <<wire, sent, snd_seq>>

----------------------------------------------------------------------------
(* Bounds of the model *)
MaxPackets == 3
MaxSeqPackets == 5
MaxWidePackets == 2
MaxTokens == 5
MaxUnits == 2

----------------------------------------------------------------------------
(* Bytes, optional values, slices *)
None == <<>>
Some(x) == <<x>>
Get(o) == o[1]

START_CODE_3 == <<0, 0, 1>>
START_CODE_4 == <<0, 0, 0, 1>>

RECURSIVE BitAnd(_, _)
BitAnd(a, b) ==
    IF a = 0 \/ b = 0 THEN 0
    ELSE (a % 2) * (b % 2) + 2 * BitAnd(a \div 2, b \div 2)

RECURSIVE BitOr(_, _)
BitOr(a, b) ==
    IF a = 0 THEN b
    ELSE IF b = 0 THEN a
    ELSE (IF a % 2 = 1 \/ b % 2 = 1 THEN 1 ELSE 0) + 2 * BitOr(a \div 2, b \div 2)

Shr(a, n) == a \div (2 ^ n)

Min(a, b) == IF a < b THEN a ELSE b

\* Python's data[a:b] for 0 <= a
Slice(data, a, b) == SubSeq(data, a + 1, Min(b, Len(data)))
\* Python's data[a:]
SliceFrom(data, a) == SubSeq(data, a + 1, Len(data))
\* Python's data[i] for 0 <= i < len(data)
At(data, i) == data[i + 1]
\* struct.unpack(">H", two bytes)
UnpackH(two) == two[1] * 256 + two[2]

----------------------------------------------------------------------------
(* parse_rtp_header *)
\* Variant: the extension length is taken in bytes, not in 32-bit words
ExtendHeaderLenBytes(header_len, ext_len) == header_len + 4 + ext_len

\* header_len += 4 + ext_len * 4
ExtendHeaderLen(header_len, ext_len) == header_len + 4 + ext_len * 4

parse_rtp_header(data) ==
    IF Len(data) < 12 THEN None
    ELSE
      LET b0 == At(data, 0)
          b1 == At(data, 1)
          seq == UnpackH(Slice(data, 2, 4))
          version == Shr(b0, 6)
          padding == BitAnd(Shr(b0, 5), 1)
          extension == BitAnd(Shr(b0, 4), 1)
          csrc_count == BitAnd(b0, 15)
          marker == BitAnd(Shr(b1, 7), 1)
          payload_type == BitAnd(b1, 127)
          header_len0 == 12 + csrc_count * 4
      IN
      IF Len(data) < header_len0 THEN None
      ELSE IF extension = 1 /\ Len(data) < header_len0 + 4 THEN None
      ELSE
        LET ext_len == IF extension = 1
                       THEN UnpackH(Slice(data, header_len0 + 2, header_len0 + 4))
                       ELSE 0
            header_len == IF extension = 1
                          THEN ExtendHeaderLen(header_len0, ext_len)
                          ELSE header_len0
        IN
        IF extension = 1 /\ Len(data) < header_len THEN None
        ELSE IF padding = 1
        THEN LET pad == At(data, Len(data) - 1) IN
             IF pad = 0 \/ pad > Len(data) - header_len THEN None
             ELSE Some([version |-> version, marker |-> marker,
                        payload_type |-> payload_type, sequence |-> seq,
                        payload |-> Slice(data, header_len, Len(data) - pad)])
        ELSE Some([version |-> version, marker |-> marker,
                   payload_type |-> payload_type, sequence |-> seq,
                   payload |-> SliceFrom(data, header_len)])

----------------------------------------------------------------------------
(* Sequence tracking: the state is [last_seq, lost_packets, out_of_order, dup_packets] *)
\* Variant: last_seq is kept on a duplicate or an out-of-order packet
TrackSequenceKeepLast(S, seq) ==
    IF S.last_seq = None
    THEN [S EXCEPT !.last_seq = Some(seq)]
    ELSE
      LET delta == (seq - Get(S.last_seq)) % 65536 IN
      IF delta = 0 THEN [S EXCEPT !.dup_packets = @ + 1]
      ELSE IF delta = 1 THEN [S EXCEPT !.last_seq = Some(seq)]
      ELSE IF delta < 32768
      THEN [S EXCEPT !.lost_packets = @ + (delta - 1), !.last_seq = Some(seq)]
      ELSE [S EXCEPT !.out_of_order = @ + 1]

\* Variant: the difference is not reduced modulo 2^16
TrackSequenceNoMod(S, seq) ==
    IF S.last_seq = None
    THEN [S EXCEPT !.last_seq = Some(seq)]
    ELSE
      LET delta == seq - Get(S.last_seq)
          counted ==
            IF delta = 0 THEN [S EXCEPT !.dup_packets = @ + 1]
            ELSE IF delta = 1 THEN S
            ELSE IF delta < 32768 THEN [S EXCEPT !.lost_packets = @ + (delta - 1)]
            ELSE [S EXCEPT !.out_of_order = @ + 1]
      IN [counted EXCEPT !.last_seq = Some(seq)]

TrackSequence(S, seq) ==
    IF S.last_seq = None
    THEN [S EXCEPT !.last_seq = Some(seq)]
    ELSE
      LET delta == (seq - Get(S.last_seq)) % 65536
          counted ==
            IF delta = 0 THEN [S EXCEPT !.dup_packets = @ + 1]
            ELSE IF delta = 1 THEN S
            ELSE IF delta < 32768 THEN [S EXCEPT !.lost_packets = @ + (delta - 1)]
            ELSE [S EXCEPT !.out_of_order = @ + 1]
      IN [counted EXCEPT !.last_seq = Some(seq)]

----------------------------------------------------------------------------
(* Start-code planner *)
\* Variant: once the recorded lengths are used up the last of them is repeated
next_start_code_repeat_last(index) ==
    IF index < Len(start_code_seq)
    THEN [code |-> IF start_code_seq[index + 1] = 4 THEN START_CODE_4 ELSE START_CODE_3,
          index |-> index + 1]
    ELSE IF start_code_seq # <<>>
    THEN [code |-> IF start_code_seq[Len(start_code_seq)] = 4
                   THEN START_CODE_4 ELSE START_CODE_3,
          index |-> index]
    ELSE [code |-> start_code, index |-> index]

next_start_code(index) ==
    IF index < Len(start_code_seq)
    THEN [code |-> IF start_code_seq[index + 1] = 4 THEN START_CODE_4 ELSE START_CODE_3,
          index |-> index + 1]
    ELSE [code |-> start_code, index |-> index]

----------------------------------------------------------------------------
(* Depacketizer: the state D is                                            *)
(* [fu_buffer, start_code_index, nal_units, fu_complete, fu_errors,        *)
(*  stap_units, out, records, codes]                                       *)

\* out.write(next_start_code()); out.write(nal); nal_units += 1
WriteNal(D, nal) ==
    LET p == next_start_code(D.start_code_index) IN
    [D EXCEPT !.out = @ \o p.code \o nal,
              !.records = Append(@, p.code \o nal),
              !.codes = Append(@, p.code),
              !.start_code_index = p.index,
              !.nal_units = @ + 1]

\* Variant: the fragment buffer survives a single-NAL packet
SingleNalKeepBuffer(D, payload) == WriteNal(D, payload)

SingleNal(D, payload) ==
    [WriteNal(D, payload) EXCEPT !.fu_buffer = None]

\* Variant: an overrunning length is not counted
StapOverrunSilent(D) == D

\* fu_errors += 1; break
StapOverrun(D) == [D EXCEPT !.fu_errors = @ + 1]

RECURSIVE StapLoop(_, _, _)
StapLoop(D, payload, offset) ==
    IF ~(offset + 2 <= Len(payload)) THEN D
    ELSE
      LET nal_len == UnpackH(Slice(payload, offset, offset + 2))
          offset2 == offset + 2
      IN
      IF offset2 + nal_len > Len(payload)
      THEN StapOverrun(D)
      ELSE
        LET nal == Slice(payload, offset2, offset2 + nal_len) IN
        StapLoop(IF nal # <<>>
                 THEN [WriteNal(D, nal) EXCEPT !.stap_units = @ + 1]
                 ELSE D,
                 payload, offset2 + nal_len)

\* Variant: the aggregate is read from the STAP-A header byte on
StapAFromZero(D, payload) == StapLoop(D, payload, 0)

StapA(D, payload) == StapLoop(D, payload, 1)

\* Variant: the type of the FU indicator (28) is kept
ReconstructedHeaderFromIndicator(fu_indicator, fu_header) == fu_indicator

ReconstructedHeader(fu_indicator, fu_header) ==
    BitOr(BitOr(BitAnd(fu_indicator, 128), BitAnd(fu_indicator, 96)),
          BitAnd(fu_header, 31))

\* Variant: a start fragment extends a buffer that is still open
FuStartAppend(D, payload) ==
    LET p == next_start_code(D.start_code_index) IN
    [D EXCEPT !.start_code_index = p.index,
              !.codes = Append(@, p.code),
              !.fu_buffer = Some((IF @ = None THEN <<>> ELSE Get(@))
                                 \o p.code
                                 \o <<ReconstructedHeader(At(payload, 0), At(payload, 1))>>
                                 \o SliceFrom(payload, 2))]

FuStart(D, payload) ==
    LET p == next_start_code(D.start_code_index) IN
    [D EXCEPT !.start_code_index = p.index,
              !.codes = Append(@, p.code),
              !.fu_buffer = Some(p.code
                                 \o <<ReconstructedHeader(At(payload, 0), At(payload, 1))>>
                                 \o SliceFrom(payload, 2))]

\* Variant: a continuation fragment is also written straight to the output
FuContinueWriteThrough(D, payload) ==
    [D EXCEPT !.fu_buffer = Some(Get(@) \o SliceFrom(payload, 2)),
              !.out = @ \o SliceFrom(payload, 2)]

FuContinue(D, payload) ==
    [D EXCEPT !.fu_buffer = Some(Get(@) \o SliceFrom(payload, 2))]

\* Variant: a completed fragment is not counted as a NAL unit
FuEndNoCount(D) ==
    [D EXCEPT !.out = @ \o Get(D.fu_buffer),
              !.records = Append(@, Get(D.fu_buffer)),
              !.fu_complete = @ + 1,
              !.fu_buffer = None]

FuEnd(D) ==
    [D EXCEPT !.out = @ \o Get(D.fu_buffer),
              !.records = Append(@, Get(D.fu_buffer)),
              !.nal_units = @ + 1,
              !.fu_complete = @ + 1,
              !.fu_buffer = None]

\* Variant: a continuation without a start fragment is skipped silently
FuALenient(D, payload) ==
    IF Len(payload) < 2 THEN [D EXCEPT !.fu_errors = @ + 1]
    ELSE
      LET fu_header == At(payload, 1)
          start == BitAnd(Shr(fu_header, 7), 1)
          end == BitAnd(Shr(fu_header, 6), 1)
      IN
      IF start = 0 /\ D.fu_buffer = None
      THEN D
      ELSE
        LET D1 == IF start = 1 THEN FuStart(D, payload) ELSE FuContinue(D, payload) IN
        IF end = 1 /\ D1.fu_buffer # None THEN FuEnd(D1) ELSE D1

FuA(D, payload) ==
    IF Len(payload) < 2 THEN [D EXCEPT !.fu_errors = @ + 1]
    ELSE
      LET fu_header == At(payload, 1)
          start == BitAnd(Shr(fu_header, 7), 1)
          end == BitAnd(Shr(fu_header, 6), 1)
      IN
      IF start = 0 /\ D.fu_buffer = None
      THEN [D EXCEPT !.fu_errors = @ + 1]
      ELSE
        LET D1 == IF start = 1 THEN FuStart(D, payload) ELSE FuContinue(D, payload) IN
        IF end = 1 /\ D1.fu_buffer # None THEN FuEnd(D1) ELSE D1

Unsupported(D) == [D EXCEPT !.fu_errors = @ + 1]

NalType(payload) == BitAnd(At(payload, 0), 31)

\* Variant: type 25 (STAP-B) is unpacked like STAP-A
DepacketizeStapB(D, payload) ==
    LET nal_type == NalType(payload) IN
    IF nal_type < 24 THEN SingleNal(D, payload)
    ELSE IF nal_type = 24 \/ nal_type = 25 THEN StapA(D, payload)
    ELSE IF nal_type = 28 THEN FuA(D, payload)
    ELSE Unsupported(D)

Depacketize(D, payload) ==
    LET nal_type == NalType(payload) IN
    IF nal_type < 24 THEN SingleNal(D, payload)
    ELSE IF nal_type = 24 THEN StapA(D, payload)
    ELSE IF nal_type = 28 THEN FuA(D, payload)
    ELSE Unsupported(D)

----------------------------------------------------------------------------
(* Snapshots of the program state, used by the history variables *)
Snapshot ==
    [start_code_index |-> start_code_index, fu_buffer |-> fu_buffer,
     packets |-> packets, bytes_payload |-> bytes_payload,
     nal_units |-> nal_units, fu_complete |-> fu_complete,
     fu_errors |-> fu_errors, stap_units |-> stap_units,
     marker_count |-> marker_count, lost_packets |-> lost_packets,
     out_of_order |-> out_of_order, dup_packets |-> dup_packets,
     last_seq |-> last_seq, capture_start |-> capture_start,
     out |-> out, records |-> records]

NoPacket(kind) ==
    [kind |-> kind, seq |-> 0, marker |-> 0, payload |-> <<>>, data |-> <<>>]

\* The last iteration was a per-packet error: the datagram was rejected or
\* the error counter grew
LastWasError == rx.kind = "rejected" \/ fu_errors > prev.fu_errors

FuStartBit(payload) == BitAnd(Shr(At(payload, 1), 7), 1)
FuEndBit(payload) == BitAnd(Shr(At(payload, 1), 6), 1)

\* The FU-A packets received since the last start fragment, together with the
\* replay cursor at that start fragment; a single-NAL packet or a new start
\* fragment ends the run, and a run that has seen its end fragment is over.
NextFuRun(payload) ==
    LET open == IF fuRun # None /\ FuEndBit(Get(fuRun).pkts[Len(Get(fuRun).pkts)]) = 1
                THEN None ELSE fuRun
        nal_type == NalType(payload)
    IN
    IF nal_type < 24 THEN None
    ELSE IF nal_type = 28 /\ Len(payload) >= 2
    THEN IF FuStartBit(payload) = 1
         THEN Some([cursor |-> start_code_index, pkts |-> <<payload>>,
                    afterErr |-> LastWasError])
         ELSE IF open # None
              THEN Some([Get(open) EXCEPT !.pkts = Append(@, payload)])
              ELSE None
    ELSE open

\* A single-NAL packet found a buffer open (or one already abandoned) and no
\* FU-A start fragment has arrived since.
NextAbandoned(payload) ==
    LET nal_type == NalType(payload) IN
    IF nal_type < 24 THEN (abandoned \/ fu_buffer # None)
    ELSE IF nal_type = 28 /\ Len(payload) >= 2 /\ FuStartBit(payload) = 1 THEN FALSE
    ELSE abandoned

----------------------------------------------------------------------------
(* Scanning the reference file for start codes (files of less than one     *)
(* chunk of 1 MiB: a single pass of the outer loops)                       *)
RECURSIVE DetectFrom(_, _)
DetectFrom(data, i) ==
    IF ~(i + 3 < Len(data)) THEN 4
    ELSE IF Slice(data, i, i + 4) = START_CODE_4 THEN 4
    ELSE IF Slice(data, i, i + 3) = START_CODE_3 THEN 3
    ELSE DetectFrom(data, i + 1)

detect_start_code_len(data) == DetectFrom(data, 0)

\* Variant: only the 3-byte start code is tested, so that a 4-byte start code
\* is recorded as a zero byte and a 3-byte start code
RECURSIVE CollectFrom3Only(_, _)
CollectFrom3Only(data, i) ==
    IF ~(i <= Len(data) - 4) THEN <<>>
    ELSE IF Slice(data, i, i + 3) = START_CODE_3
    THEN <<3>> \o CollectFrom3Only(data, i + 3)
    ELSE CollectFrom3Only(data, i + 1)

\* while i <= end: ... with end = len(data) - 4
RECURSIVE CollectFrom(_, _)
CollectFrom(data, i) ==
    IF ~(i <= Len(data) - 4) THEN <<>>
    ELSE IF Slice(data, i, i + 4) = START_CODE_4
    THEN <<4>> \o CollectFrom(data, i + 4)
    ELSE IF Slice(data, i, i + 3) = START_CODE_3
    THEN <<3>> \o CollectFrom(data, i + 3)
    ELSE CollectFrom(data, i + 1)

collect_start_code_lengths_3_only(data) == CollectFrom3Only(data, 0)

collect_start_code_lengths(data) == CollectFrom(data, 0)

----------------------------------------------------------------------------
(* Initial state: main() up to the receive loop *)
Args(start_code_arg, preserve, data) ==
    [start_code |-> start_code_arg, preserve_start_codes |-> preserve, input |-> data]

\* A reference file whose start codes have the lengths 3, 4, 3
SampleInput == <<0, 0, 1, 101, 0, 0, 0, 1, 65, 0, 0, 1, 9>>

Configs ==
    { Args("3", FALSE, SampleInput),
      Args("4", TRUE, SampleInput) }

\* The session state main() sets up from its arguments
Session(args) ==
    /\ input = args.input
    /\ LET start_code_len == IF args.start_code = "auto"
                             THEN detect_start_code_len(args.input)
                             ELSE IF args.start_code = "4" THEN 4 ELSE 3
       IN start_code = IF start_code_len = 4 THEN START_CODE_4 ELSE START_CODE_3
    /\ start_code_seq = IF args.preserve_start_codes
                        THEN collect_start_code_lengths(args.input)
                        ELSE <<>>
    /\ start_code_index = 0
    /\ fu_buffer = None
    /\ packets = 0 /\ bytes_payload = 0 /\ nal_units = 0 /\ fu_complete = 0
    /\ fu_errors = 0 /\ stap_units = 0 /\ marker_count = 0
    /\ lost_packets = 0 /\ out_of_order = 0 /\ dup_packets = 0
    /\ last_seq = None
    /\ capture_start = FALSE
    /\ out = <<>>
    /\ records = <<>>
    /\ seqHist = <<>>
    /\ codeHist = <<>>
    /\ singles = 0
    /\ afterError = FALSE
    /\ fuRun = None
    /\ abandoned = FALSE
    /\ rx = NoPacket("none")
    /\ prev = [start_code_index |-> 0, fu_buffer |-> None, packets |-> 0,
               bytes_payload |-> 0, nal_units |-> 0, fu_complete |-> 0,
               fu_errors |-> 0, stap_units |-> 0, marker_count |-> 0,
               lost_packets |-> 0, out_of_order |-> 0, dup_packets |-> 0,
               last_seq |-> None, capture_start |-> FALSE,
               out |-> <<>>, records |-> <<>>]

\* parse_annexb is not running; nothing is being sent
ScanOff == scan_pc = "off" /\ scan_i = 0 /\ yielded = <<>>
SenderIdle == wire = <<>> /\ sent = 0 /\ snd_seq = 0

Init ==
    /\ pc = "running"
    /\ \E args \in Configs : Session(args)
    /\ ScanOff
    /\ SenderIdle

----------------------------------------------------------------------------
(* Datagrams fed to the model *)
RtpDatagram(b0, b1, seq, rest) ==
    <<b0, b1, seq \div 256, seq % 256, 0, 0, 0, 0, 0, 0, 0, 0>> \o rest

\* version 2, no padding, no extension, no CSRC, payload type 96
Plain(seq, marker, payload) ==
    RtpDatagram(128, IF marker = 1 THEN 224 ELSE 96, seq, payload)

Datagrams ==
    { Plain(7, 0, <<101, 170>>),
      RtpDatagram(129, 224, 8, <<0, 0, 0, 1>> \o <<65>>),
      RtpDatagram(144, 96, 9, <<0, 0, 0, 1, 0, 0, 0, 0>> \o <<24, 0, 1, 9>>),
      Plain(10, 1, <<24, 0, 2, 1, 2, 0, 3, 3, 4, 5>>),
      Plain(12, 0, <<24, 0, 1, 9, 0, 3, 65>>),
      Plain(12, 0, <<24, 0, 2, 65>>),
      Plain(11, 0, <<24, 0, 0, 0, 1, 9, 7>>),
      Plain(65534, 0, <<92, 133, 65, 66>>),
      Plain(65535, 0, <<92, 5, 67, 68>>),
      Plain(0, 1, <<92, 69, 69>>),
      RtpDatagram(160, 224, 1, <<124, 193, 170>> \o <<0, 2>>),
      Plain(2, 0, <<220, 129, 187>>),
      Plain(3, 0, <<124>>),
      Plain(40000, 0, <<25, 170>>),
      Plain(4, 0, <<29>>),
      <<128, 96, 0, 1, 0, 0, 0, 0>>,
      Plain(6, 0, <<>>) }

SeqValues == { 0, 1, 10, 11, 12, 13, 32778, 65535 }
SeqDatagrams == { Plain(s, 0, <<101, 170>>) : s \in SeqValues }

\* A wide set of datagrams: the header layouts at their boundaries, every
\* unsupported type and the corner cases of the payload formats
WideDatagrams ==
    { <<128, 96, 0, 1, 0, 0, 0, 0>>,
      <<128, 96, 0, 1, 0, 0, 0, 0, 0, 0, 0>>,
      <<160, 96, 0, 1, 0, 0, 0, 0, 0, 0, 0, 5>>,
      RtpDatagram(0, 96, 20, <<101, 170>>),
      RtpDatagram(64, 96, 21, <<101, 170>>),
      RtpDatagram(192, 224, 22, <<101, 170>>),
      Plain(23, 0, <<>>),
      Plain(258, 1, <<101, 170>>),
      RtpDatagram(129, 96, 24, <<9, 9, 9, 9>> \o <<65, 1>>),
      RtpDatagram(129, 96, 25, <<9, 9, 9>>),
      RtpDatagram(130, 96, 26, <<9, 9, 9, 9, 8, 8, 8, 8>>),
      RtpDatagram(143, 96, 27, <<9, 9, 9, 9, 8, 8, 8, 8>>),
      RtpDatagram(144, 96, 28, <<0, 0, 0, 0>> \o <<65, 2>>),
      RtpDatagram(144, 224, 29, <<7, 7, 0, 1, 9, 9, 9, 9>> \o <<65, 3>>),
      RtpDatagram(144, 96, 30, <<0, 0, 0>>),
      RtpDatagram(144, 96, 31, <<0, 0, 0, 2, 1, 2, 3, 4>>),
      RtpDatagram(144, 96, 31, <<0, 0, 1, 0, 1, 2, 3, 4>>),
      RtpDatagram(145, 96, 32, <<9, 9, 9, 9>> \o <<0, 0, 0, 0>> \o <<65, 4>>),
      RtpDatagram(160, 96, 33, <<65, 5, 1>>),
      RtpDatagram(160, 224, 34, <<65, 6, 0, 2>>),
      RtpDatagram(160, 96, 35, <<65, 0>>),
      RtpDatagram(160, 96, 36, <<65, 3>>),
      RtpDatagram(160, 96, 37, <<65, 2>>),
      RtpDatagram(160, 96, 38, <<>>),
      RtpDatagram(176, 96, 39, <<0, 0, 0, 0>> \o <<65, 7, 1>>),
      RtpDatagram(176, 96, 40, <<0, 0, 0, 1, 9, 9, 9, 9>> \o <<65, 2>>),
      RtpDatagram(161, 96, 41, <<9, 9, 9, 9>> \o <<65, 8, 0, 0, 3>>),
      Plain(50, 0, <<25, 170>>),
      Plain(51, 0, <<26>>),
      Plain(52, 0, <<27, 0, 1, 9>>),
      Plain(53, 0, <<29, 133, 65>>),
      Plain(54, 0, <<30>>),
      Plain(55, 0, <<31, 1>>),
      Plain(56, 0, <<92, 133, 65, 66>>),
      Plain(57, 0, <<92, 5, 67, 68>>),
      Plain(58, 0, <<92, 69, 69>>),
      Plain(59, 0, <<124, 71>>),
      Plain(60, 0, <<124>>),
      Plain(61, 0, <<24>>),
      Plain(62, 0, <<24, 0, 2, 1, 2, 0, 3, 3, 4, 5>>),
      Plain(63, 0, <<24, 0, 1, 9, 0, 3, 65>>),
      Plain(64, 0, <<24, 0>>) }

\* header = parse_rtp_header(data), tabulated once over the datagrams of the model
HeaderOf ==
    [data \in Datagrams \cup SeqDatagrams \cup WideDatagrams |-> parse_rtp_header(data)]

----------------------------------------------------------------------------
\* Variant: the RTP version is not looked at
RejectedAnyVersion(header) == header = None

\* if not header or header["version"] != 2: continue
Rejected(header) == header = None \/ Get(header).version # 2

----------------------------------------------------------------------------
(* One iteration of the receive loop that received the datagram data, header *)
(* being parse_rtp_header(data)                                              *)
Handle(data, header) ==
    /\ pc = "running"
    /\ prev' = Snapshot
    /\ UNCHANGED <<pc, start_code, start_code_seq>>
    /\ IF Rejected(header)
       THEN /\ rx' = [NoPacket("rejected") EXCEPT !.data = data]
            /\ afterError' = FALSE
            /\ UNCHANGED <<progVars, records, seqHist, codeHist, singles, fuRun, abandoned>>
       ELSE IF Get(header).payload = <<>>
       THEN /\ rx' = [NoPacket("empty") EXCEPT !.data = data]
            /\ afterError' = FALSE
            /\ UNCHANGED <<progVars, records, seqHist, codeHist, singles, fuRun, abandoned>>
       ELSE
         LET h == Get(header)
             payload == h.payload
             S == TrackSequence([last_seq |-> last_seq, lost_packets |-> lost_packets,
                                 out_of_order |-> out_of_order,
                                 dup_packets |-> dup_packets], h.sequence)
             D == Depacketize([fu_buffer |-> fu_buffer,
                               start_code_index |-> start_code_index,
                               nal_units |-> nal_units, fu_complete |-> fu_complete,
                               fu_errors |-> fu_errors, stap_units |-> stap_units,
                               out |-> out, records |-> records,
                               codes |-> codeHist], payload)
         IN
         /\ afterError' = LastWasError
         /\ rx' = [kind |-> "accepted", seq |-> h.sequence, marker |-> h.marker,
                   payload |-> payload, data |-> data]
         /\ last_seq' = S.last_seq
         /\ lost_packets' = S.lost_packets
         /\ out_of_order' = S.out_of_order
         /\ dup_packets' = S.dup_packets
         /\ capture_start' = TRUE
         /\ packets' = packets + 1
         /\ bytes_payload' = bytes_payload + Len(payload)
         /\ marker_count' = IF h.marker # 0 THEN marker_count + 1 ELSE marker_count
         /\ fu_buffer' = D.fu_buffer
         /\ start_code_index' = D.start_code_index
         /\ nal_units' = D.nal_units
         /\ fu_complete' = D.fu_complete
         /\ fu_errors' = D.fu_errors
         /\ stap_units' = D.stap_units
         /\ out' = D.out
         /\ records' = D.records
         /\ codeHist' = D.codes
         /\ singles' = IF NalType(payload) < 24 THEN singles + 1 ELSE singles
         /\ seqHist' = Append(seqHist, h.sequence)
         /\ fuRun' = NextFuRun(payload)
         /\ abandoned' = NextAbandoned(payload)

\* A datagram from the network
Recv(data) ==
    /\ Handle(data, HeaderOf[data])
    /\ UNCHANGED <<input, scanVars, sendVars>>

\* sock.recvfrom timed out: continue
SocketTimeout ==
    /\ pc = "running"
    /\ UNCHANGED vars

\* The loop ends and the finally block closes the output
Close ==
    /\ pc' = "closed"
    /\ prev' = Snapshot
    /\ rx' = NoPacket("stop")
    /\ afterError' = FALSE
    /\ UNCHANGED <<start_code, start_code_seq, progVars, records, seqHist, codeHist,
                   singles, fuRun, abandoned, input, scanVars, sendVars>>

\* The duration or the idle timeout has elapsed (both need capture_start)
TimerStop ==
    /\ pc = "running"
    /\ capture_start
    /\ Close

KeyboardInterrupt ==
    /\ pc = "running"
    /\ Close

----------------------------------------------------------------------------
(* Specifications *)
Next ==
    \/ \E data \in Datagrams : packets < MaxPackets /\ Recv(data)
    \/ SocketTimeout
    \/ TimerStop
    \/ KeyboardInterrupt

Spec == Init /\ [][Next]_vars

NextSeq ==
    \/ \E data \in SeqDatagrams : packets < MaxSeqPackets /\ Recv(data)
    \/ SocketTimeout
    \/ TimerStop
    \/ KeyboardInterrupt

NextWide ==
    \/ \E data \in WideDatagrams : packets < MaxWidePackets /\ Recv(data)
    \/ SocketTimeout
    \/ TimerStop
    \/ KeyboardInterrupt

SpecWide == Init /\ [][NextWide]_vars

\* The sequence tracker does not depend on the start-code plan: fixed mode only
InitSeq == Init /\ start_code_seq = <<>>

SpecSeq == InitSeq /\ [][NextSeq]_vars

----------------------------------------------------------------------------
(* Annex-B scanner (src/ref.py) *)
RECURSIVE FindFrom(_, _)
FindFrom(data, i) ==
    IF ~(i < Len(data) - 3) THEN <<>>
    ELSE IF Slice(data, i, i + 4) = START_CODE_4
    THEN <<i>> \o FindFrom(data, i + 4)
    ELSE IF Slice(data, i, i + 3) = START_CODE_3
    THEN <<i>> \o FindFrom(data, i + 3)
    ELSE FindFrom(data, i + 1)

find_start_codes(data) == FindFrom(data, 0)

\* starts = find_start_codes(data); starts.append(len(data))
Starts(data) == Append(find_start_codes(data), Len(data))

\* nal = data[nal_start:nal_end] for the loop index i
NalAt(data, i) ==
    LET starts == Starts(data)
        start == starts[i + 1]
        nal_start == IF Slice(data, start, start + 4) = START_CODE_4
                     THEN start + 4 ELSE start + 3
        nal_end == starts[i + 2]
    IN
    Slice(data, nal_start, nal_end)

\* Variant: bit 6 is taken for the forbidden bit
forbidden_zero_bit_6(header) == BitAnd(Shr(header, 6), 1)

forbidden_zero_bit(header) == BitAnd(Shr(header, 7), 1)

NALUnit(nal) ==
    [nal_ref_idc |-> BitAnd(Shr(At(nal, 0), 5), 3),
     nal_unit_type |-> BitAnd(At(nal, 0), 31),
     payload |-> SliceFrom(nal, 1)]

\* One iteration of the for loop: if not nal: continue
ScanSkip ==
    /\ scan_pc = "scanning"
    /\ scan_i < Len(Starts(input)) - 1
    /\ NalAt(input, scan_i) = <<>>
    /\ scan_i' = scan_i + 1
    /\ UNCHANGED <<scan_pc, yielded>>

\* One iteration of the for loop: raise ValueError
ScanFail ==
    /\ scan_pc = "scanning"
    /\ scan_i < Len(Starts(input)) - 1
    /\ NalAt(input, scan_i) # <<>>
    /\ forbidden_zero_bit(At(NalAt(input, scan_i), 0)) # 0
    /\ scan_pc' = "failed"
    /\ UNCHANGED <<scan_i, yielded>>

\* One iteration of the for loop: yield NALUnit(...)
ScanYield ==
    /\ scan_pc = "scanning"
    /\ scan_i < Len(Starts(input)) - 1
    /\ NalAt(input, scan_i) # <<>>
    /\ forbidden_zero_bit(At(NalAt(input, scan_i), 0)) = 0
    /\ yielded' = Append(yielded, NALUnit(NalAt(input, scan_i)))
    /\ scan_i' = scan_i + 1
    /\ UNCHANGED scan_pc

\* The for loop is over
ScanEnd ==
    /\ scan_pc = "scanning"
    /\ ~(scan_i < Len(Starts(input)) - 1)
    /\ scan_pc' = "done"
    /\ UNCHANGED <<scan_i, yielded>>

receiverVars ==
    <<pc, start_code, start_code_seq, progVars, records, seqHist, codeHist, singles,
      afterError, fuRun, abandoned, rx, prev>>

\* The buffers of up to n tokens: single bytes and whole start codes
Tokens == { <<0>>, <<1>>, <<101>>, <<229>>, START_CODE_3, START_CODE_4 }
RECURSIVE TokenSeqs(_)
TokenSeqs(n) ==
    IF n = 0 THEN { <<>> }
    ELSE LET S == TokenSeqs(n - 1) IN S \cup { s \o t : s \in S, t \in Tokens }
ScanInputs == TokenSeqs(MaxTokens)

\* ref.py main() on a buffer; the receiver is not started
InitScan ==
    /\ pc = "off"
    /\ \E data \in ScanInputs : Session(Args("auto", TRUE, data))
    /\ scan_pc = "scanning" /\ scan_i = 0 /\ yielded = <<>>
    /\ SenderIdle

NextScan ==
    \/ ScanSkip /\ UNCHANGED <<input, receiverVars, sendVars>>
    \/ ScanFail /\ UNCHANGED <<input, receiverVars, sendVars>>
    \/ ScanYield /\ UNCHANGED <<input, receiverVars, sendVars>>
    \/ ScanEnd /\ UNCHANGED <<input, receiverVars, sendVars>>

SpecScan == InitScan /\ [][NextScan]_vars

----------------------------------------------------------------------------
(* Round trip: the reference file is scanned, its units are packetized     *)
(* (single NAL, STAP-A, FU-A) and the datagrams are received in order      *)
NalBytes(unit) == <<unit.nal_ref_idc * 32 + unit.nal_unit_type>> \o unit.payload

RECURSIVE StapEntries(_)
StapEntries(units) ==
    IF units = <<>> THEN <<>>
    ELSE LET nal == NalBytes(Head(units)) IN
         <<Len(nal) \div 256, Len(nal) % 256>> \o nal \o StapEntries(Tail(units))

StapPayload(units) == <<24>> \o StapEntries(units)

RECURSIVE SortedSeq(_)
SortedSeq(S) ==
    IF S = {} THEN <<>>
    ELSE LET m == CHOOSE x \in S : \A y \in S : x <= y IN <<m>> \o SortedSeq(S \ {m})

\* The places where the bytes after the NAL header can be cut: at least one cut
CutSets(unit) == (SUBSET (1..(Len(unit.payload) - 1))) \ { {} }

\* FU indicator (NRI, type 28), FU header (S, E, type), fragment
FuPayloads(unit, cuts) ==
    LET body == unit.payload
        bs == <<0>> \o SortedSeq(cuts) \o <<Len(body)>>
        n == Len(bs) - 1
    IN
    [k \in 1..n |->
        <<unit.nal_ref_idc * 32 + 28,
          (IF k = 1 THEN 128 ELSE 0) + (IF k = n THEN 64 ELSE 0) + unit.nal_unit_type>>
        \o SubSeq(body, bs[k] + 1, bs[k + 1])]

\* The payloads leave as RTP datagrams with consecutive sequence numbers and
\* cover the next n scanned units
Send(payloads, n) ==
    /\ pc = "running"
    /\ scan_pc = "done"
    /\ wire = <<>>
    /\ wire' = [k \in 1..Len(payloads) |->
                   Plain((snd_seq + k - 1) % 65536, 0, payloads[k])]
    /\ sent' = sent + n
    /\ snd_seq' = (snd_seq + Len(payloads)) % 65536
    /\ UNCHANGED <<input, scanVars, receiverVars>>

SendSingle ==
    /\ sent < Len(yielded)
    /\ Send(<<NalBytes(yielded[sent + 1])>>, 1)

SendStap ==
    \E n \in 1..(Len(yielded) - sent) :
        Send(<<StapPayload(SubSeq(yielded, sent + 1, sent + n))>>, n)

SendFu ==
    /\ sent < Len(yielded)
    /\ \E cuts \in CutSets(yielded[sent + 1]) :
          Send(FuPayloads(yielded[sent + 1], cuts), 1)

\* sock.recvfrom returns the oldest datagram in flight
Deliver ==
    /\ wire # <<>>
    /\ Handle(Head(wire), parse_rtp_header(Head(wire)))
    /\ wire' = Tail(wire)
    /\ UNCHANGED <<input, scanVars, sent, snd_seq>>

\* Annex-B buffers of up to n units, each behind a 3- or 4-byte start code
RTUnits == { <<101>>, <<65, 170, 187>>, <<39, 1, 0, 2>> }
RECURSIVE AnnexB(_)
AnnexB(n) ==
    IF n = 0 THEN { <<>> }
    ELSE LET S == AnnexB(n - 1) IN
         S \cup { s \o c \o u : s \in S, c \in {START_CODE_3, START_CODE_4}, u \in RTUnits }
RTInputs == AnnexB(MaxUnits)

InitRT ==
    /\ pc = "running"
    /\ \E data \in RTInputs : Session(Args("auto", TRUE, data))
    /\ scan_pc = "scanning" /\ scan_i = 0 /\ yielded = <<>>
    /\ SenderIdle

NextRT ==
    \/ ScanYield /\ UNCHANGED <<input, receiverVars, sendVars>>
    \/ ScanEnd /\ UNCHANGED <<input, receiverVars, sendVars>>
    \/ SendSingle
    \/ SendStap
    \/ SendFu
    \/ Deliver
    \/ SocketTimeout
    \/ TimerStop
    \/ KeyboardInterrupt

SpecRT == InitRT /\ [][NextRT]_vars

----------------------------------------------------------------------------
(* Vocabulary of the properties *)

\* The k-th value (k = 0, 1, ...) the planner returns over a session
PlannedCode(k) ==
    IF k < Len(start_code_seq)
    THEN (IF start_code_seq[k + 1] = 4 THEN START_CODE_4 ELSE START_CODE_3)
    ELSE start_code

RECURSIVE Flatten(_)
Flatten(rs) == IF rs = <<>> THEN <<>> ELSE Head(rs) \o Flatten(Tail(rs))

IsPrefix(p, s) == Len(p) <= Len(s) /\ SubSeq(s, 1, Len(p)) = p

Accepted == rx.kind = "accepted"
RxSingle == Accepted /\ NalType(rx.payload) < 24
RxStap == Accepted /\ NalType(rx.payload) = 24
\* an FU-A packet that carries both its indicator and its header
RxFu == Accepted /\ NalType(rx.payload) = 28 /\ Len(rx.payload) >= 2
RxFuStart == RxFu /\ FuStartBit(rx.payload) = 1
RxFuEnd == RxFu /\ FuEndBit(rx.payload) = 1

\* The NAL unit an FU-A run carries: header byte from the start fragment
\* (F and NRI of its indicator, type of its FU header), then the fragment bytes
RunHeader(pkt) ==
    (pkt[1] \div 128) * 128 + ((pkt[1] \div 32) % 4) * 32 + (pkt[2] % 32)
RECURSIVE RunBytes(_)
RunBytes(pkts) ==
    IF pkts = <<>> THEN <<>>
    ELSE SubSeq(Head(pkts), 3, Len(Head(pkts))) \o RunBytes(Tail(pkts))
RunNal(run) == <<RunHeader(run.pkts[1])>> \o RunBytes(run.pkts)
RunRecord(run) == PlannedCode(run.cursor) \o RunNal(run)

\* The last iteration received the end fragment of a run of n >= 2 FU-A packets
FuRunEnded == RxFuEnd /\ ~RxFuStart /\ fuRun # None
\* The last iteration received the start fragment or a middle fragment of a run
FuRunGoing == RxFu /\ ~RxFuEnd /\ fuRun # None

\* STAP-A entries read off the payload from offset off (0-based), each a
\* 2-byte big-endian length L > 0 followed by L bytes
StapLen(p, off) == p[off + 1] * 256 + p[off + 2]
StapEntryFits(p, off) ==
    /\ off + 2 <= Len(p)
    /\ StapLen(p, off) > 0
    /\ off + 2 + StapLen(p, off) <= Len(p)
RECURSIVE StapUnits(_, _)
StapUnits(p, off) ==
    IF StapEntryFits(p, off)
    THEN <<SubSeq(p, off + 3, off + 2 + StapLen(p, off))>>
         \o StapUnits(p, off + 2 + StapLen(p, off))
    ELSE <<>>
\* the offset behind the well-formed entries
RECURSIVE StapRest(_, _)
StapRest(p, off) ==
    IF StapEntryFits(p, off) THEN StapRest(p, off + 2 + StapLen(p, off)) ELSE off
\* the payload is its header byte and well-formed entries, nothing else
StapWellFormed(p) == StapRest(p, 1) = Len(p)
\* behind the well-formed entries stands a length that overruns the payload
StapOverruns(p) ==
    LET off == StapRest(p, 1) IN
    off + 2 <= Len(p) /\ off + 2 + StapLen(p, off) > Len(p)

\* The records the units us get when the first of them takes the planner's k-th value
PlannedRecords(us, k) == [i \in 1..Len(us) |-> PlannedCode(k + i - 1) \o us[i]]

----------------------------------------------------------------------------
(* C1: FU-A reassembly. When the end fragment of a run of n >= 2 FU-A       *)
(* packets (start fragment, fragments with neither flag, end fragment; no  *)
(* single-NAL packet and no other start fragment in between) arrives, one  *)
(* record is written: the start code taken at the start fragment, the      *)
(* header rebuilt from the start fragment, and all fragment bytes in       *)
(* arrival order; the FU-A-complete and NAL counters grow by 1 and the     *)
(* state is Idle again. The earlier fragments of the run write nothing.    *)
C1_FuReassembly ==
    /\ FuRunEnded =>
         /\ records = Append(prev.records, RunRecord(Get(fuRun)))
         /\ out = prev.out \o RunRecord(Get(fuRun))
         /\ fu_complete = prev.fu_complete + 1
         /\ nal_units = prev.nal_units + 1
         /\ fu_buffer = None
    /\ FuRunGoing =>
         /\ records = prev.records
         /\ out = prev.out
         /\ fu_complete = prev.fu_complete
         /\ nal_units = prev.nal_units
         /\ fu_buffer # None

\* The NAL unit F=0, NRI=2, type 5, payload "ABCDE" arrived in three fragments
C1_Witness ==
    /\ FuRunEnded
    /\ Len(Get(fuRun).pkts) = 3
    /\ RunNal(Get(fuRun)) = <<69, 65, 66, 67, 68, 69>>
    /\ records = <<PlannedCode(0) \o <<69, 65, 66, 67, 68, 69>>>>

(* C2: STAP-A unpacking. A STAP-A payload made of its header byte and k    *)
(* well-formed entries writes k records in entry order, the i-th being the *)
(* next start code and the i-th entry's bytes; the STAP-A and NAL counters *)
(* grow by k and the error counter does not change.                        *)
C2_StapUnpacking ==
    (RxStap /\ StapWellFormed(rx.payload)) =>
        LET us == StapUnits(rx.payload, 1) IN
        /\ records = prev.records \o PlannedRecords(us, prev.start_code_index)
        /\ out = prev.out \o Flatten(PlannedRecords(us, prev.start_code_index))
        /\ stap_units = prev.stap_units + Len(us)
        /\ nal_units = prev.nal_units + Len(us)
        /\ fu_errors = prev.fu_errors

\* The aggregate of 01 02 and 03 04 05 was unpacked into two records
C2_Witness ==
    /\ RxStap
    /\ rx.payload = <<24, 0, 2, 1, 2, 0, 3, 3, 4, 5>>
    /\ Len(records) = Len(prev.records) + 2
    /\ SubSeq(records, Len(records) - 1, Len(records))
         = <<PlannedCode(prev.start_code_index) \o <<1, 2>>,
             PlannedCode(prev.start_code_index + 1) \o <<3, 4, 5>>>>

(* C3: STAP-A partial failure. When the first j entries are well-formed    *)
(* and entry j+1 declares a length that overruns the payload, exactly the  *)
(* first j units are written, in order, the error counter grows by 1, and  *)
(* nothing is written for the overrunning entry or the bytes after it.     *)
C3_StapPartialFailure ==
    (RxStap /\ StapOverruns(rx.payload)) =>
        LET us == StapUnits(rx.payload, 1) IN
        /\ records = prev.records \o PlannedRecords(us, prev.start_code_index)
        /\ out = prev.out \o Flatten(PlannedRecords(us, prev.start_code_index))
        /\ stap_units = prev.stap_units + Len(us)
        /\ nal_units = prev.nal_units + Len(us)
        /\ fu_errors = prev.fu_errors + 1

\* One valid unit, then a declared length of 3 with one byte left
C3_Witness ==
    /\ RxStap
    /\ rx.payload = <<24, 0, 1, 9, 0, 3, 65>>
    /\ records = Append(prev.records, PlannedCode(prev.start_code_index) \o <<9>>)
    /\ fu_errors = prev.fu_errors + 1

(* C4: Abandoned fragment is counted. Whenever a buffer is open and a      *)
(* single-NAL packet or an FU-A start fragment discards it, the error      *)
(* counter is incremented.                                                 *)
C4_AbandonedCounted ==
    (prev.fu_buffer # None /\ (RxSingle \/ RxFuStart)) =>
        fu_errors = prev.fu_errors + 1

(* C5: Single NAL packet. In any state a packet with nal_type < 24 writes  *)
(* exactly one record, the next start code and the whole payload, counts   *)
(* one NAL unit and leaves the depacketizer Idle; a fragment it abandoned  *)
(* is not completed by a later FU-A continuation or end fragment.          *)
C5_SingleNal ==
    /\ RxSingle =>
         /\ records = Append(prev.records,
                             PlannedCode(prev.start_code_index) \o rx.payload)
         /\ out = prev.out \o PlannedCode(prev.start_code_index) \o rx.payload
         /\ nal_units = prev.nal_units + 1
         /\ fu_buffer = None
    /\ (abandoned /\ RxFu) =>
         /\ records = prev.records
         /\ out = prev.out
         /\ fu_buffer = None

\* An end fragment arrived after a single-NAL packet had cut its run short
C5_Witness ==
    /\ abandoned
    /\ RxFuEnd
    /\ records = prev.records
    /\ Len(records) >= 1

(* C6: Start codes follow emission order. For every k the k-th record      *)
(* written begins with the k-th value of the planner.                      *)
C6_StartCodesFollowEmission ==
    \A k \in 1..Len(records) : IsPrefix(PlannedCode(k - 1), records[k])

(* C7: Fragment state is reset by every non-fragment packet. After an      *)
(* accepted packet whose nal_type is not 28 the fragment state is Idle.    *)
C7_NonFragmentResets ==
    (Accepted /\ NalType(rx.payload) # 28) => fu_buffer = None

(* C8: Sequence classification. The first accepted packet sets lastSeq and *)
(* changes no counter; later, with delta = (seq - lastSeq) mod 65536:      *)
(* 0 counts a duplicate only, 1 counts nothing, 1 < delta < 32768 adds     *)
(* delta - 1 to lost only, delta >= 32768 counts out-of-order only; and    *)
(* lastSeq becomes seq in every case.                                      *)
C8_SequenceClassification ==
    Accepted =>
        LET delta == IF prev.last_seq = None THEN 1
                     ELSE (rx.seq - Get(prev.last_seq)) % 65536
        IN
        /\ last_seq = Some(rx.seq)
        /\ dup_packets = prev.dup_packets + (IF delta = 0 THEN 1 ELSE 0)
        /\ lost_packets = prev.lost_packets
                            + (IF 1 < delta /\ delta < 32768 THEN delta - 1 ELSE 0)
        /\ out_of_order = prev.out_of_order + (IF delta >= 32768 THEN 1 ELSE 0)

\* 65535 followed by 0, in a session that has seen a duplicate, a loss and
\* an out-of-order packet
C8_Witness ==
    /\ Accepted
    /\ prev.last_seq = Some(65535)
    /\ rx.seq = 0
    /\ dup_packets = 1 /\ lost_packets = 1 /\ out_of_order = 1

(* C9: Sequence example as stated: 10, 11, 13, 12, 10 ends with lost = 1,  *)
(* outOfOrder = 1, duplicate = 1.                                          *)
C9_ExampleAsStated ==
    seqHist = <<10, 11, 13, 12, 10>> =>
        lost_packets = 1 /\ out_of_order = 1 /\ dup_packets = 1

(* C9 as amended: 10, 11, 13, 12, 10 classifies as in-order, in-order,     *)
(* lost (lost += 1), out-of-order, out-of-order: the last 10 is compared   *)
(* with 12, so the final counters are lost = 1, outOfOrder = 2,            *)
(* duplicate = 0.                                                          *)
C9_ExampleAmended ==
    /\ seqHist \in {<<10>>, <<10, 11>>} =>
         lost_packets = 0 /\ out_of_order = 0 /\ dup_packets = 0
    /\ seqHist = <<10, 11, 13>> =>
         lost_packets = 1 /\ out_of_order = 0 /\ dup_packets = 0
    /\ seqHist = <<10, 11, 13, 12>> =>
         lost_packets = 1 /\ out_of_order = 1 /\ dup_packets = 0
    /\ seqHist = <<10, 11, 13, 12, 10>> =>
         lost_packets = 1 /\ out_of_order = 2 /\ dup_packets = 0

C9_Witness ==
    seqHist = <<10, 11, 13, 12, 10>> /\ rx.seq = 10 /\ prev.last_seq = Some(12)

(* C10: Partial fragments are never written. The output is the             *)
(* concatenation of the complete records; an FU-A packet writes only when  *)
(* it ends a run, and then the whole run from its start fragment; an open  *)
(* buffer is in memory only, and closing the session leaves it unwritten.  *)
C10_NoPartialFragments ==
    /\ out = Flatten(records)
    /\ (RxFu /\ out # prev.out) =>
         /\ RxFuEnd
         /\ fuRun # None
         /\ FuStartBit(Get(fuRun).pkts[1]) = 1
         /\ out = prev.out \o RunRecord(Get(fuRun))
    /\ fu_buffer # None =>
         /\ fuRun # None
         /\ fu_buffer = Some(RunRecord(Get(fuRun)))
    /\ pc = "closed" =>
         /\ out = prev.out
         /\ fu_buffer = prev.fu_buffer

\* The session was closed with two fragments in the buffer and nothing written
C10_Witness ==
    /\ pc = "closed"
    /\ fu_buffer # None
    /\ Len(Get(fuRun).pkts) = 2
    /\ out = <<>>


----------------------------------------------------------------------------
(* The header layout read off the datagram, byte by byte *)
Received == rx.kind \in {"accepted", "rejected", "empty"}

WireVersion(d) == d[1] \div 64
HasPad(d) == (d[1] \div 32) % 2 = 1
HasExt(d) == (d[1] \div 16) % 2 = 1
CsrcEnd(d) == 12 + 4 * (d[1] % 16)
\* the 16-bit big-endian field at header_len + 2
ExtLenField(d) == d[CsrcEnd(d) + 3] * 256 + d[CsrcEnd(d) + 4]
WireHeaderLen(d) ==
    IF HasExt(d) THEN CsrcEnd(d) + 4 + 4 * ExtLenField(d) ELSE CsrcEnd(d)
\* the datagram is shorter than header_len at some stage
LengthFails(d) ==
    \/ Len(d) < CsrcEnd(d)
    \/ HasExt(d) /\ (Len(d) < CsrcEnd(d) + 4 \/ Len(d) < WireHeaderLen(d))
PaddingFails(d) ==
    HasPad(d) /\ (d[Len(d)] = 0 \/ d[Len(d)] > Len(d) - WireHeaderLen(d))
WireFails(d) == LengthFails(d) \/ PaddingFails(d)
WirePad(d) == IF HasPad(d) THEN d[Len(d)] ELSE 0
WirePayload(d) == SubSeq(d, WireHeaderLen(d) + 1, Len(d) - WirePad(d))
WireSequence(d) == d[3] * 256 + d[4]
WireMarker(d) == d[2] \div 128

ShouldReject(d) == Len(d) < 12 \/ WireFails(d) \/ WireVersion(d) # 2
ShouldCount(d) == ~ShouldReject(d) /\ WirePayload(d) # <<>>

\* The records written by the last iteration, and records without their start code
NewRecords == SubSeq(records, Len(prev.records) + 1, Len(records))
StripCode(r) ==
    IF IsPrefix(START_CODE_4, r) THEN SubSeq(r, 5, Len(r))
    ELSE IF IsPrefix(START_CODE_3, r) THEN SubSeq(r, 4, Len(r))
    ELSE r
Stripped(rs) == [i \in 1..Len(rs) |-> StripCode(rs[i])]

----------------------------------------------------------------------------
(* C11: FU-A continuation without start. An FU-A packet with start=0 that  *)
(* arrives while no buffer is open (with or without end=1) counts exactly  *)
(* one error and changes nothing else: no output, NAL and FU-A-complete    *)
(* counters and start-code cursor unchanged, still no buffer. When a       *)
(* buffer is open its fragment bytes are appended and no error is counted. *)
C11_ContinuationWithoutStart ==
    LET frag == SubSeq(rx.payload, 3, Len(rx.payload)) IN
    /\ (RxFu /\ ~RxFuStart /\ prev.fu_buffer = None) =>
         /\ fu_errors = prev.fu_errors + 1
         /\ out = prev.out
         /\ records = prev.records
         /\ nal_units = prev.nal_units
         /\ fu_complete = prev.fu_complete
         /\ start_code_index = prev.start_code_index
         /\ fu_buffer = None
    /\ (RxFu /\ ~RxFuStart /\ prev.fu_buffer # None) =>
         /\ fu_errors = prev.fu_errors
         /\ IF RxFuEnd
            THEN /\ out = prev.out \o Get(prev.fu_buffer) \o frag
                 /\ fu_buffer = None
            ELSE /\ out = prev.out
                 /\ fu_buffer = Some(Get(prev.fu_buffer) \o frag)

\* An end fragment arrived with no buffer open and was counted as an error
C11_Witness ==
    /\ RxFuEnd /\ ~RxFuStart
    /\ prev.fu_buffer = None
    /\ rx.payload = <<92, 69, 69>>
    /\ fu_errors = prev.fu_errors + 1
    /\ out = prev.out

(* C12: Unsupported NAL types. An accepted packet of type 25, 26, 27, 29,  *)
(* 30 or 31 counts exactly one error and emits nothing: the output, the    *)
(* NAL, FU-A-complete and STAP-A counters and the cursor are unchanged.    *)
C12_UnsupportedTypes ==
    (Accepted /\ NalType(rx.payload) \in {25, 26, 27, 29, 30, 31}) =>
        /\ fu_errors = prev.fu_errors + 1
        /\ out = prev.out
        /\ records = prev.records
        /\ nal_units = prev.nal_units
        /\ fu_complete = prev.fu_complete
        /\ stap_units = prev.stap_units
        /\ start_code_index = prev.start_code_index

\* A packet of type 25 arrived while a fragment buffer was open
C12_Witness ==
    /\ Accepted
    /\ rx.payload = <<25, 170>>
    /\ prev.fu_buffer # None
    /\ fu_errors = prev.fu_errors + 1

(* C13: Rejected datagrams. A datagram shorter than 12 bytes, one whose    *)
(* CSRC list, extension block or padding does not fit, or one whose RTP    *)
(* version is not 2 leaves the whole session state as it was: sequence     *)
(* tracking, all counters, the fragment buffer, the cursor and the output. *)
C13_RejectedLeaveState ==
    (Received /\ ShouldReject(rx.data)) =>
        /\ rx.kind = "rejected"
        /\ Snapshot = prev
        /\ pc = "running"

\* A version-1 datagram arrived in the middle of a fragmented unit
C13_Witness ==
    /\ rx.kind = "rejected"
    /\ Len(rx.data) >= 12
    /\ WireVersion(rx.data) = 1
    /\ prev.fu_buffer # None
    /\ prev.last_seq # None

(* C14: RTP payload boundaries. For a datagram of at least 12 bytes,       *)
(* parse_rtp_header fails exactly when the datagram is shorter than        *)
(* header_len at some stage or the padding bit is set with pad = 0 or      *)
(* pad > length - header_len; otherwise the payload is the bytes from      *)
(* header_len to length - pad and sequence and marker are the values in    *)
(* bytes 2-3 and bit 7 of byte 1. The loop works on exactly these values.  *)
C14_PayloadBoundaries ==
    (Received /\ Len(rx.data) >= 12) =>
        LET d == rx.data
            header == parse_rtp_header(d)
        IN
        /\ (header = None) <=> WireFails(d)
        /\ ~WireFails(d) =>
             /\ Get(header).payload = WirePayload(d)
             /\ Get(header).sequence = WireSequence(d)
             /\ Get(header).marker = WireMarker(d)
        /\ Accepted =>
             /\ rx.payload = WirePayload(d)
             /\ rx.seq = WireSequence(d)
             /\ rx.marker = WireMarker(d)

\* A datagram with a one-word extension block and the marker bit was accepted
C14_Witness ==
    /\ Accepted
    /\ HasExt(rx.data)
    /\ ExtLenField(rx.data) = 1
    /\ rx.payload = <<65, 3>>
    /\ rx.seq = 29
    /\ rx.marker = 1

(* C15: Start-code planner. The i-th call of next_start_code returns the   *)
(* start code of the i-th recorded length while i <= n and the configured  *)
(* default afterwards; the cursor counts the calls up to n, never          *)
(* decreases and never exceeds n. With no recorded lengths every call      *)
(* returns the configured start code.                                      *)
C15_Planner ==
    /\ \A i \in 1..Len(codeHist) : codeHist[i] = PlannedCode(i - 1)
    /\ start_code_seq = <<>> => \A i \in 1..Len(codeHist) : codeHist[i] = start_code
    /\ start_code_index = Min(Len(codeHist), Len(start_code_seq))
    /\ start_code_index >= prev.start_code_index
    /\ start_code_index <= Len(start_code_seq)

\* The three recorded lengths were used up and two more start codes were taken
C15_Witness ==
    /\ start_code_seq = <<3, 4, 3>>
    /\ Len(codeHist) >= 5
    /\ start_code_index = 3
    /\ SubSeq(codeHist, 1, 5)
         = <<START_CODE_3, START_CODE_4, START_CODE_3, start_code, start_code>>


(* C16: Round trip. For a valid Annex-B buffer (non-empty NAL units of     *)
(* types below 24, each behind a 3- or 4-byte start code), with the        *)
(* start-code lengths recorded by collect_start_code_lengths and replayed, *)
(* once every unit has been packetized in order (single NAL, STAP-A entry  *)
(* or FU-A fragments cut anywhere) and every packet has been received, the *)
(* output equals the buffer byte for byte; until then it is a prefix.      *)
RoundTripDone ==
    /\ pc # "off"
    /\ scan_pc = "done"
    /\ sent = Len(yielded)
    /\ wire = <<>>

C16_RoundTrip ==
    (pc # "off" /\ scan_pc # "off") =>
        /\ IsPrefix(out, input)
        /\ RoundTripDone => out = input

\* Two units behind start codes of different lengths came back, one through
\* FU-A fragments and one through a STAP-A packet
C16_Witness ==
    /\ RoundTripDone
    /\ Len(start_code_seq) = 2
    /\ start_code_seq[1] # start_code_seq[2]
    /\ fu_complete = 1
    /\ stap_units = 1
    /\ input # <<>>
    /\ out = input

(* C17: Errors never end or poison the session. After a per-packet error   *)
(* (rejected header, short FU-A payload, continuation without start,       *)
(* STAP-A overrun, unsupported type) the loop is still running, and a      *)
(* well-formed single-NAL packet, STAP-A packet or complete FU-A sequence  *)
(* that follows is written as from a fresh depacketizer: the same units,   *)
(* each behind some start code, with the same counter changes.             *)
C17_ErrorsDoNotPoison ==
    /\ LastWasError => pc = "running"
    /\ (afterError /\ RxSingle) =>
         /\ Stripped(NewRecords) = <<rx.payload>>
         /\ out = prev.out \o Flatten(NewRecords)
         /\ nal_units = prev.nal_units + 1
         /\ fu_errors = prev.fu_errors
         /\ fu_buffer = None
    /\ (afterError /\ RxStap /\ StapWellFormed(rx.payload)) =>
         /\ Stripped(NewRecords) = StapUnits(rx.payload, 1)
         /\ out = prev.out \o Flatten(NewRecords)
         /\ nal_units = prev.nal_units + Len(StapUnits(rx.payload, 1))
         /\ stap_units = prev.stap_units + Len(StapUnits(rx.payload, 1))
         /\ fu_errors = prev.fu_errors
    /\ (RxFuEnd /\ fuRun # None /\ Get(fuRun).afterErr) =>
         /\ Stripped(NewRecords) = <<RunNal(Get(fuRun))>>
         /\ out = prev.out \o Flatten(NewRecords)
         /\ nal_units = prev.nal_units + 1
         /\ fu_complete = prev.fu_complete + 1
         /\ fu_errors = prev.fu_errors
         /\ fu_buffer = None

\* An error struck while a fragment buffer was open; the fragmented unit
\* that started right after it was written complete
C17_Witness ==
    /\ RxFuEnd
    /\ fuRun # None
    /\ Get(fuRun).afterErr
    /\ prev.fu_buffer # None
    /\ fu_errors >= 1
    /\ Stripped(NewRecords) = <<RunNal(Get(fuRun))>>

(* C20: Counter consistency. In every reachable state the NAL counter      *)
(* equals the number of records written and equals single-NAL packets +    *)
(* STAP-A sub-units + FU-A completions; no counter ever decreases; and the *)
(* packet counter grows by exactly 1 for each datagram that decodes with   *)
(* version 2 and a non-empty payload, and by 0 for any other.              *)
C20_CounterConsistency ==
    /\ nal_units = Len(records)
    /\ nal_units = singles + stap_units + fu_complete
    /\ packets >= prev.packets
    /\ nal_units >= prev.nal_units
    /\ fu_complete >= prev.fu_complete
    /\ stap_units >= prev.stap_units
    /\ fu_errors >= prev.fu_errors
    /\ lost_packets >= prev.lost_packets
    /\ dup_packets >= prev.dup_packets
    /\ out_of_order >= prev.out_of_order
    /\ Received =>
         packets = prev.packets + (IF ShouldCount(rx.data) THEN 1 ELSE 0)
    /\ ~Received => packets = prev.packets

\* One unit of each kind was written; the last packet was counted and failed
C20_Witness ==
    /\ singles >= 1
    /\ stap_units >= 2
    /\ fu_complete >= 1
    /\ nal_units = singles + stap_units + fu_complete
    /\ Accepted
    /\ packets = prev.packets + 1


----------------------------------------------------------------------------
(* The units of a buffer, read off the start codes the scanner located *)
\* the bytes between the end of the k-th start code and the next one (or the end)
SliceOf(data, k) ==
    LET pos == find_start_codes(data)
        from == pos[k] + (IF SubSeq(data, pos[k] + 1, pos[k] + 4) = START_CODE_4
                          THEN 4 ELSE 3)
        to == IF k < Len(pos) THEN pos[k + 1] ELSE Len(data)
    IN SubSeq(data, from + 1, to)
SlicesOf(data) == [k \in 1..Len(find_start_codes(data)) |-> SliceOf(data, k)]
NonEmptySeq(x) == x # <<>>
UnitsOf(data) == SelectSeq(SlicesOf(data), NonEmptySeq)
ForbiddenSet(unit) == unit[1] >= 128

(* C18: Scanner forbidden bit. parse_annexb never yields a unit whose      *)
(* first byte has bit 7 set; it fails at the first such unit, after        *)
(* having yielded in order every unit before it; each yielded unit has     *)
(* nal_ref_idc = bits 6-5 and nal_unit_type = bits 4-0 of the first byte   *)
(* and the remaining bytes as payload; empty slices between start codes    *)
(* are skipped without error.                                              *)
C18_ForbiddenBit ==
    scan_pc # "off" =>
        LET units == UnitsOf(input) IN
        /\ Len(yielded) <= Len(units)
        /\ \A k \in 1..Len(yielded) :
             /\ ~ForbiddenSet(units[k])
             /\ yielded[k].nal_ref_idc = (units[k][1] \div 32) % 4
             /\ yielded[k].nal_unit_type = units[k][1] % 32
             /\ yielded[k].nal_unit_type \in 0..31
             /\ yielded[k].payload = Tail(units[k])
        /\ scan_pc = "failed" =>
             /\ Len(yielded) < Len(units)
             /\ ForbiddenSet(units[Len(yielded) + 1])
        /\ scan_pc = "done" =>
             /\ Len(yielded) = Len(units)
             /\ \A k \in 1..Len(units) : ~ForbiddenSet(units[k])

\* An empty slice was skipped, a unit was yielded, and the scan failed at
\* the unit E5
C18_Witness ==
    /\ scan_pc = "failed"
    /\ input = START_CODE_3 \o START_CODE_4 \o <<101>> \o START_CODE_3 \o <<229>>
    /\ scan_i = 2
    /\ yielded = <<[nal_ref_idc |-> 3, nal_unit_type |-> 5, payload |-> <<>>]>>

\* The positions a scan finds that tests every position up to the end of the buffer
RECURSIVE FullScanFrom(_, _)
FullScanFrom(data, i) ==
    IF i >= Len(data) THEN <<>>
    ELSE IF i + 4 <= Len(data) /\ SubSeq(data, i + 1, i + 4) = START_CODE_4
    THEN <<i>> \o FullScanFrom(data, i + 4)
    ELSE IF i + 3 <= Len(data) /\ SubSeq(data, i + 1, i + 3) = START_CODE_3
    THEN <<i>> \o FullScanFrom(data, i + 3)
    ELSE FullScanFrom(data, i + 1)

(* C19: Start-code location. find_start_codes returns exactly the          *)
(* positions found by a left-to-right scan that tests, at each position up *)
(* to the end of the buffer, the 4-byte start code before the 3-byte one,  *)
(* records a match and jumps past it, and otherwise advances by one byte;  *)
(* so a 3-byte start code in the last three bytes is recorded. Stated of   *)
(* the positions a finished scan has worked with.                          *)
C19_FindsEveryStartCode ==
    scan_pc \in {"done", "failed"} => find_start_codes(input) = FullScanFrom(input, 0)


====
